---- MODULE Spec2Model ----
(***************************************************************************)
(* Solar pool heater (pool_heater-mk3.ino).                                *)
(*                                                                         *)
(* The sketch's globals, its state callbacks, the transition table that    *)
(* setup() registers and one action for setup() and one for loop().  The   *)
(* state-machine engine behind "Fsm.h" (run_machine, trigger, the timed    *)
(* transitions) is not part of the sketch; it is modelled from sections 3, *)
(* 4.1, 5 and 9 of the specification.                                      *)
(***************************************************************************)
EXTENDS Integers, Sequences, FiniteSets, TLC

VARIABLES
    pc,                  \* "setup" before setup() has run, "loop" afterwards
    poolTemp, poolSet, coilTemp, coilSet,   \* int globals (line 45)
    statusBuffer,        \* char statusBuffer[8] (line 46)
    ledState, pumpState, \* int globals (line 47)
    m_current_state,     \* the Fsm's current state (line 84)
    m_initialized,       \* whether the first run_machine() has run the initial entry action
    m_transitions,       \* event transitions registered by add_transition
    m_timed_transitions, \* timed transitions registered by add_timed_transition
    elapsed,             \* ms spent in m_current_state since it was entered
    fired,               \* the transitions fired by the last run_machine(), in order
    beeps,               \* the notifications emitted by the last run_machine(), in order
    ledPin, pumpPin,     \* the levels last written to LED_PIN and PUMP_PIN
    display,             \* the status line last drawn on the OLED
    potRaw,              \* the value analogRead(POT_PIN) delivered last
    poolFault, coilFault,\* history: every reading so far of that sensor was the disconnected value
    since                \* history: what has happened since the last CheckPool decision

vars == <<pc, poolTemp, poolSet, coilTemp, coilSet, statusBuffer, ledState,
          pumpState, m_current_state, m_initialized, m_transitions,
          m_timed_transitions, elapsed, fired, beeps, ledPin, pumpPin,
          display, potRaw, poolFault, coilFault, since>>

----------------------------------------------------------------------------
(* Bounds of the model *)

\* a control cycle takes between 1 and MaxStep time steps
MaxStep == 2
\* length of one time step in ms
StepMs == 1000

----------------------------------------------------------------------------
(* Program constants *)

LOW == 0
HIGH == 1

POOL_NOT_HEATED == 0
POOL_HEATED == 1
COIL_NOT_PRIMED == 2
COIL_PRIMED == 3
COIL_NOT_READY == 4
COIL_READY == 5

\* the intervals of the four timed transitions, in ms
WaitMs == 6000
HeatMs == 12000
SmallHeatMs == 6000
PumpMs == 2000

\* the reading of a disconnected sensor in tenths of a degree F (-196.6)
DisconnectedF10 == 0 - 1966

\* tenths of a degree F the two sensors can deliver in the model
SensorF10 == {DisconnectedF10, 700, 715, 725, 950}
\* raw dial values analogRead(POT_PIN) can deliver in the model
RawDial == {0, 511, 1023}

States == {"CheckPool", "Wait", "Heat", "SmallHeat", "CheckCoil", "CheckPrimed", "Pump"}
DwellStates == {"Wait", "Heat", "SmallHeat", "Pump"}
DecisionStates == {"CheckPool", "CheckCoil", "CheckPrimed"}

----------------------------------------------------------------------------
(* Arithmetic of loop() *)

Abs(x) == IF x < 0 THEN 0 - x ELSE x

\* C integer division: truncates toward zero
TruncDiv(a, b) ==
    IF (a >= 0) = (b > 0) THEN Abs(a) \div Abs(b) ELSE 0 - (Abs(a) \div Abs(b))

\* int x = f + 0.5 for a float f given in tenths: the conversion truncates toward zero
RoundTemp(f10) == TruncDiv(f10 + 5, 10)

\* Arduino map(): (x - in_min) * (out_max - out_min) / (in_max - in_min) + out_min
map(x, in_min, in_max, out_min, out_max) ==
    TruncDiv((x - in_min) * (out_max - out_min), in_max - in_min) + out_min

----------------------------------------------------------------------------
(* State objects: the entry and exit callbacks of each state (lines 77-83) *)

OnEnter(s) ==
    CASE s = "CheckPool"   -> "check_pool_temp"
      [] s = "Wait"        -> "enter_wait_state"
      [] s = "Heat"        -> "enter_heat_state"
      [] s = "SmallHeat"   -> "enter_heat_state"
      [] s = "CheckCoil"   -> "check_coil_temp"
      [] s = "CheckPrimed" -> "check_coil_primed"
      [] s = "Pump"        -> "enter_pump_state"

OnExit(s) == IF s = "Pump" THEN "exit_pump_state" ELSE "NULL"

\* variant: the Fsm object is constructed without a state
InitialState_unset == "NULL"

\* the state the Fsm object is constructed with
InitialState == "CheckPool"

----------------------------------------------------------------------------
(* The transition table registered by setup() (lines 228-241) *)

\* variant: the COIL_READY transition is not registered
setup_transitions_without_ready ==
    << [state_from |-> "CheckPool",   state_to |-> "Wait",        event |-> POOL_HEATED,     on_transition |-> "makeGoodBeep"],
       [state_from |-> "CheckPool",   state_to |-> "Heat",        event |-> POOL_NOT_HEATED, on_transition |-> "makeGoodBeep"],
       [state_from |-> "CheckCoil",   state_to |-> "SmallHeat",   event |-> COIL_NOT_READY,  on_transition |-> "NULL"],
       [state_from |-> "CheckPrimed", state_to |-> "Pump",        event |-> COIL_NOT_PRIMED, on_transition |-> "makeGoodBeep"],
       [state_from |-> "CheckPrimed", state_to |-> "Wait",        event |-> COIL_PRIMED,     on_transition |-> "makeGoodBeep"] >>

\* variant: the POOL_NOT_HEATED line registered with the event of the line above
setup_transitions_duplicate_event ==
    << [state_from |-> "CheckPool",   state_to |-> "Wait",        event |-> POOL_HEATED,     on_transition |-> "makeGoodBeep"],
       [state_from |-> "CheckPool",   state_to |-> "Heat",        event |-> POOL_HEATED,     on_transition |-> "makeGoodBeep"],
       [state_from |-> "CheckCoil",   state_to |-> "SmallHeat",   event |-> COIL_NOT_READY,  on_transition |-> "NULL"],
       [state_from |-> "CheckCoil",   state_to |-> "CheckPrimed", event |-> COIL_READY,      on_transition |-> "makeGoodBeep"],
       [state_from |-> "CheckPrimed", state_to |-> "Pump",        event |-> COIL_NOT_PRIMED, on_transition |-> "makeGoodBeep"],
       [state_from |-> "CheckPrimed", state_to |-> "Wait",        event |-> COIL_PRIMED,     on_transition |-> "makeGoodBeep"] >>

setup_transitions ==
    << [state_from |-> "CheckPool",   state_to |-> "Wait",        event |-> POOL_HEATED,     on_transition |-> "makeGoodBeep"],
       [state_from |-> "CheckPool",   state_to |-> "Heat",        event |-> POOL_NOT_HEATED, on_transition |-> "makeGoodBeep"],
       [state_from |-> "CheckCoil",   state_to |-> "SmallHeat",   event |-> COIL_NOT_READY,  on_transition |-> "NULL"],
       [state_from |-> "CheckCoil",   state_to |-> "CheckPrimed", event |-> COIL_READY,      on_transition |-> "makeGoodBeep"],
       [state_from |-> "CheckPrimed", state_to |-> "Pump",        event |-> COIL_NOT_PRIMED, on_transition |-> "makeGoodBeep"],
       [state_from |-> "CheckPrimed", state_to |-> "Wait",        event |-> COIL_PRIMED,     on_transition |-> "makeGoodBeep"] >>

\* variant: the pump burst ends in wait_state instead of check_primed_state
setup_timed_transitions_pump_to_wait ==
    << [state_from |-> "Wait",      state_to |-> "CheckPool",   interval |-> WaitMs,      on_transition |-> "NULL"],
       [state_from |-> "Heat",      state_to |-> "CheckCoil",   interval |-> HeatMs,      on_transition |-> "makeGoodBeep"],
       [state_from |-> "SmallHeat", state_to |-> "CheckCoil",   interval |-> SmallHeatMs, on_transition |-> "NULL"],
       [state_from |-> "Pump",      state_to |-> "Wait",        interval |-> PumpMs,      on_transition |-> "NULL"] >>

\* variant: the timed exit of wait_state is registered with the good beep
setup_timed_transitions_wait_beeps ==
    << [state_from |-> "Wait",      state_to |-> "CheckPool",   interval |-> WaitMs,      on_transition |-> "makeGoodBeep"],
       [state_from |-> "Heat",      state_to |-> "CheckCoil",   interval |-> HeatMs,      on_transition |-> "makeGoodBeep"],
       [state_from |-> "SmallHeat", state_to |-> "CheckCoil",   interval |-> SmallHeatMs, on_transition |-> "NULL"],
       [state_from |-> "Pump",      state_to |-> "CheckPrimed", interval |-> PumpMs,      on_transition |-> "NULL"] >>

\* variant: the interval of heat_state has lost a digit
setup_timed_transitions_short_heat ==
    << [state_from |-> "Wait",      state_to |-> "CheckPool",   interval |-> WaitMs,      on_transition |-> "NULL"],
       [state_from |-> "Heat",      state_to |-> "CheckCoil",   interval |-> 1200,        on_transition |-> "makeGoodBeep"],
       [state_from |-> "SmallHeat", state_to |-> "CheckCoil",   interval |-> SmallHeatMs, on_transition |-> "NULL"],
       [state_from |-> "Pump",      state_to |-> "CheckPrimed", interval |-> PumpMs,      on_transition |-> "NULL"] >>

\* variant: the timed exit of wait_state is not registered
setup_timed_transitions_without_wait ==
    << [state_from |-> "Heat",      state_to |-> "CheckCoil",   interval |-> HeatMs,      on_transition |-> "makeGoodBeep"],
       [state_from |-> "SmallHeat", state_to |-> "CheckCoil",   interval |-> SmallHeatMs, on_transition |-> "NULL"],
       [state_from |-> "Pump",      state_to |-> "CheckPrimed", interval |-> PumpMs,      on_transition |-> "NULL"] >>

setup_timed_transitions ==
    << [state_from |-> "Wait",      state_to |-> "CheckPool",   interval |-> WaitMs,      on_transition |-> "NULL"],
       [state_from |-> "Heat",      state_to |-> "CheckCoil",   interval |-> HeatMs,      on_transition |-> "makeGoodBeep"],
       [state_from |-> "SmallHeat", state_to |-> "CheckCoil",   interval |-> SmallHeatMs, on_transition |-> "NULL"],
       [state_from |-> "Pump",      state_to |-> "CheckPrimed", interval |-> PumpMs,      on_transition |-> "NULL"] >>

----------------------------------------------------------------------------
(* The machine context the callbacks and the engine work on: a record      *)
(*   cur, elapsed, fired, beeps      engine state                          *)
(*   pumpState, ledState, statusBuffer, poolTemp, poolSet, coilTemp,       *)
(*   coilSet                         the sketch's globals                  *)
(*   table, timed                    the registered transitions            *)

RECURSIVE trigger(_, _)
RECURSIVE make_transition(_, _, _, _)
RECURSIVE Call(_, _)

\* variant: strict comparison
check_pool_temp_strict(m) ==
    IF m.poolTemp > m.poolSet
    THEN trigger(m, POOL_HEATED)
    ELSE trigger(m, POOL_NOT_HEATED)

check_pool_temp(m) ==
    IF m.poolTemp >= m.poolSet
    THEN trigger(m, POOL_HEATED)
    ELSE trigger(m, POOL_NOT_HEATED)

enter_wait_state(m) == [m EXCEPT !.statusBuffer = "WAIT..."]

\* variant: the label of the wait state copied into the heat state
enter_heat_state_wait_label(m) == [m EXCEPT !.statusBuffer = "WAIT..."]

enter_heat_state(m) == [m EXCEPT !.statusBuffer = "HEAT..."]

\* variant: comparison turned around
check_coil_temp_inverted(m) ==
    IF m.coilTemp <= m.coilSet
    THEN trigger(m, COIL_READY)
    ELSE trigger(m, COIL_NOT_READY)

\* variant: the coil compared with the pool's setpoint
check_coil_temp_pool_set(m) ==
    IF m.coilTemp >= m.poolSet
    THEN trigger(m, COIL_READY)
    ELSE trigger(m, COIL_NOT_READY)

check_coil_temp(m) ==
    IF m.coilTemp >= m.coilSet
    THEN trigger(m, COIL_READY)
    ELSE trigger(m, COIL_NOT_READY)

\* variant: strict comparison
check_coil_primed_strict(m) ==
    IF m.coilTemp < m.poolTemp + 2
    THEN trigger(m, COIL_PRIMED)
    ELSE trigger(m, COIL_NOT_PRIMED)

\* variant: the two events exchanged
check_coil_primed_swapped(m) ==
    IF m.coilTemp <= m.poolTemp + 2
    THEN trigger(m, COIL_NOT_PRIMED)
    ELSE trigger(m, COIL_PRIMED)

check_coil_primed(m) ==
    IF m.coilTemp <= m.poolTemp + 2
    THEN trigger(m, COIL_PRIMED)
    ELSE trigger(m, COIL_NOT_PRIMED)

\* variant: the label is set but the pump is not switched on
enter_pump_state_label_only(m) == [m EXCEPT !.statusBuffer = "PUMP..."]

enter_pump_state(m) ==
    [m EXCEPT !.ledState = HIGH, !.pumpState = HIGH, !.statusBuffer = "PUMP..."]

\* variant: the pump is left on
exit_pump_state_led_only(m) == [m EXCEPT !.ledState = LOW]

exit_pump_state(m) == [m EXCEPT !.ledState = LOW, !.pumpState = LOW]

\* variant: the chime counts as two notifications
makeGoodBeep_twice(m) == [m EXCEPT !.beeps = Append(Append(@, "SUCCESS"), "SUCCESS")]

\* the good chime: the success notification
makeGoodBeep(m) == [m EXCEPT !.beeps = Append(@, "SUCCESS")]

\* the bad chime: the failure notification
makeBadBeep(m) == [m EXCEPT !.beeps = Append(@, "FAILURE")]

\* call through a function pointer; NULL pointers are skipped
Call(fn, m) ==
    CASE fn = "check_pool_temp"   -> check_pool_temp(m)
      [] fn = "enter_wait_state"  -> enter_wait_state(m)
      [] fn = "enter_heat_state"  -> enter_heat_state(m)
      [] fn = "check_coil_temp"   -> check_coil_temp(m)
      [] fn = "check_coil_primed" -> check_coil_primed(m)
      [] fn = "enter_pump_state"  -> enter_pump_state(m)
      [] fn = "exit_pump_state"   -> exit_pump_state(m)
      [] fn = "makeGoodBeep"      -> makeGoodBeep(m)
      [] fn = "makeBadBeep"       -> makeBadBeep(m)
      [] fn = "NULL"              -> m

\* the notification a transition callback stands for
NotificationOf(fn) ==
    CASE fn = "makeGoodBeep" -> "SUCCESS"
      [] fn = "makeBadBeep"  -> "FAILURE"
      [] OTHER               -> "NONE"

----------------------------------------------------------------------------
(* The engine *)

\* variant: the time-in-state is not restarted on entry
make_transition_keeps_time(m, t, kind, trig) ==
    LET m1 == Call(OnExit(t.state_from), m)
        m2 == Call(t.on_transition, m1)
        m3 == [m2 EXCEPT
                 !.cur = t.state_to,
                 !.fired = Append(@, [from    |-> t.state_from,
                                      to      |-> t.state_to,
                                      kind    |-> kind,
                                      trigger |-> trig,
                                      notify  |-> NotificationOf(t.on_transition),
                                      at      |-> m.elapsed,
                                      pump    |-> m1.pumpState])]
    IN  Call(OnEnter(t.state_to), m3)

\* fire transition t: exit action, notification, then the target becomes
\* current with its time-in-state at zero and its entry action runs; the
\* record appended to fired holds the trigger (kind "event" with the event,
\* or kind "timed" with the interval), the time spent in the source state
\* and pumpState as the exit action left it
make_transition(m, t, kind, trig) ==
    LET m1 == Call(OnExit(t.state_from), m)
        m2 == Call(t.on_transition, m1)
        m3 == [m2 EXCEPT
                 !.cur = t.state_to,
                 !.elapsed = 0,
                 !.fired = Append(@, [from    |-> t.state_from,
                                      to      |-> t.state_to,
                                      kind    |-> kind,
                                      trigger |-> trig,
                                      notify  |-> NotificationOf(t.on_transition),
                                      at      |-> m.elapsed,
                                      pump    |-> m1.pumpState])]
    IN  Call(OnEnter(t.state_to), m3)

\* raise an event: the first registered transition of the current state for
\* that event fires; an event no transition matches is dropped
trigger(m, event) ==
    LET match == {i \in 1..Len(m.table) :
                     /\ m.table[i].state_from = m.cur
                     /\ m.table[i].event = event}
    IN  IF match = {} THEN m
        ELSE make_transition(m, m.table[CHOOSE i \in match : \A j \in match : i <= j],
                             "event", event)

\* fire the timed transition of the current state once its time is up
check_timed_transitions(m) ==
    LET due == {i \in 1..Len(m.timed) :
                   /\ m.timed[i].state_from = m.cur
                   /\ m.elapsed >= m.timed[i].interval}
    IN  IF due = {} THEN m
        ELSE LET t == m.timed[CHOOSE i \in due : \A j \in due : i <= j]
             IN  make_transition(m, t, "timed", t.interval)

\* one tick: the first tick runs the entry action of the initial state
run_machine(m, first) ==
    LET m1 == IF first THEN Call(OnEnter(m.cur), m) ELSE m
    IN  check_timed_transitions(m1)

----------------------------------------------------------------------------
(* The program *)

\* variant: the dial range not inverted
ReadSetpoint_not_inverted(raw) == map(raw, 0, 1023, 50, 90)

\* poolSet as loop() computes it from the dial
ReadSetpoint(raw) == map(raw, 1023, 0, 50, 90)

Min(a, b) == IF a <= b THEN a ELSE b

\* the time-in-state is counted up to this value only: it is above every
\* registered interval by the longest cycle, and no state is left later
ElapsedCap == HeatMs + MaxStep * StepMs

\* the machine context at the call of run_machine(): the globals with the
\* readings pt, ct and the setpoint ps of this cycle, steps time steps later
Context(pt, ct, ps, steps) ==
    [cur          |-> m_current_state,
     elapsed      |-> Min(elapsed + steps * StepMs, ElapsedCap),
     fired        |-> <<>>,
     beeps        |-> <<>>,
     pumpState    |-> pumpState,
     ledState     |-> ledState,
     statusBuffer |-> statusBuffer,
     poolTemp     |-> pt,
     poolSet      |-> ps,
     coilTemp     |-> ct,
     coilSet      |-> coilSet,
     table        |-> m_transitions,
     timed        |-> m_timed_transitions]

\* history of the heating cycle: whether the last CheckPool decision found
\* the pool below its setpoint, whether it sent the machine to Wait, whether
\* a full Heat dwell has followed it, and whether the last CheckCoil decision
\* after that found the coil at its setpoint
NothingYet ==
    [poolCold |-> FALSE, viaWait |-> FALSE, heatDone |-> FALSE, coilReady |-> FALSE]

\* the history after fired transition r, taken with readings pt, ps, ct, cs
TrailStep(h, r, pt, ps, ct, cs) ==
    CASE r.from = "CheckPool" ->
            [poolCold |-> pt < ps, viaWait |-> r.to = "Wait",
             heatDone |-> FALSE, coilReady |-> FALSE]
      [] r.from = "Heat" ->
            [h EXCEPT !.heatDone = h.poolCold /\ r.kind = "timed" /\ r.at >= HeatMs]
      [] r.from = "CheckCoil" ->
            [h EXCEPT !.coilReady = h.heatDone /\ ct >= cs]
      [] OTHER -> h

\* the history after the fired transitions f[i], f[i+1], ...
RECURSIVE Trail(_, _, _, _, _, _, _)
Trail(f, i, h, pt, ps, ct, cs) ==
    IF i > Len(f) THEN h
    ELSE Trail(f, i + 1, TrailStep(h, f[i], pt, ps, ct, cs), pt, ps, ct, cs)

Init ==
    /\ pc = "setup"
    /\ poolTemp = 0 /\ poolSet = 0 /\ coilTemp = 0 /\ coilSet = 0
    /\ statusBuffer = ""
    /\ ledState = 0 /\ pumpState = 0
    /\ m_current_state = InitialState
    /\ m_initialized = FALSE
    /\ m_transitions = <<>>
    /\ m_timed_transitions = <<>>
    /\ elapsed = 0
    /\ fired = <<>>
    /\ beeps = <<>>
    /\ ledPin = LOW /\ pumpPin = LOW
    /\ display = ""
    /\ potRaw = 0
    /\ poolFault = TRUE /\ coilFault = TRUE
    /\ since = NothingYet

setup ==
    /\ pc = "setup"
    /\ pc' = "loop"
    /\ m_transitions' = setup_transitions
    /\ m_timed_transitions' = setup_timed_transitions
    /\ coilSet' = 90
    /\ ledState' = LOW
    /\ pumpState' = LOW
    /\ UNCHANGED <<poolTemp, poolSet, coilTemp, statusBuffer, m_current_state,
                   m_initialized, elapsed, fired, beeps, ledPin, pumpPin,
                   display, potRaw, poolFault, coilFault, since>>

\* variant: the machine is run before the display and the pins are written
loop_tick_first(poolF10, coilF10, raw, steps) ==
    /\ pc = "loop"
    /\ LET pt == RoundTemp(poolF10)
           ct == RoundTemp(coilF10)
           ps == ReadSetpoint(raw)
           m1 == run_machine(Context(pt, ct, ps, steps), ~m_initialized)
       IN  /\ poolTemp' = pt
           /\ coilTemp' = ct
           /\ poolSet' = ps
           /\ potRaw' = raw
           /\ display' = m1.statusBuffer
           /\ ledPin' = m1.ledState
           /\ pumpPin' = m1.pumpState
           /\ m_initialized' = TRUE
           /\ m_current_state' = m1.cur
           /\ elapsed' = m1.elapsed
           /\ fired' = m1.fired
           /\ beeps' = m1.beeps
           /\ pumpState' = m1.pumpState
           /\ ledState' = m1.ledState
           /\ statusBuffer' = m1.statusBuffer
           /\ poolFault' = (poolFault /\ poolF10 = DisconnectedF10)
           /\ coilFault' = (coilFault /\ coilF10 = DisconnectedF10)
           /\ since' = Trail(m1.fired, 1, since, pt, ps, ct, coilSet)
    /\ UNCHANGED <<pc, coilSet, m_transitions, m_timed_transitions>>

\* one pass of loop(): the sensors deliver poolF10 and coilF10, the dial
\* reads raw, and steps time steps pass before the machine is run
loop(poolF10, coilF10, raw, steps) ==
    /\ pc = "loop"
    /\ LET pt == RoundTemp(poolF10)
           ct == RoundTemp(coilF10)
           ps == ReadSetpoint(raw)
           m1 == run_machine(Context(pt, ct, ps, steps), ~m_initialized)
       IN  /\ poolTemp' = pt
           /\ coilTemp' = ct
           /\ poolSet' = ps
           /\ potRaw' = raw
           /\ display' = statusBuffer
           /\ ledPin' = ledState
           /\ pumpPin' = pumpState
           /\ m_initialized' = TRUE
           /\ m_current_state' = m1.cur
           /\ elapsed' = m1.elapsed
           /\ fired' = m1.fired
           /\ beeps' = m1.beeps
           /\ pumpState' = m1.pumpState
           /\ ledState' = m1.ledState
           /\ statusBuffer' = m1.statusBuffer
           /\ poolFault' = (poolFault /\ poolF10 = DisconnectedF10)
           /\ coilFault' = (coilFault /\ coilF10 = DisconnectedF10)
           /\ since' = Trail(m1.fired, 1, since, pt, ps, ct, coilSet)
    /\ UNCHANGED <<pc, coilSet, m_transitions, m_timed_transitions>>

Next ==
    \/ setup
    \/ \E poolF10 \in SensorF10, coilF10 \in SensorF10, raw \in RawDial, steps \in 1..MaxStep :
          loop(poolF10, coilF10, raw, steps)

Spec == Init /\ [][Next]_vars

\* the range of analogRead(): a 10-bit converter
MaxRaw == 1023

\* the setpoint computation on its own: the dial delivers any raw value and
\* the statement of loop() that sets poolSet is run on it
DialInit ==
    /\ pc = "dial"
    /\ potRaw \in 0..MaxRaw
    /\ poolTemp = 0 /\ poolSet = 0 /\ coilTemp = 0 /\ coilSet = 0
    /\ statusBuffer = ""
    /\ ledState = 0 /\ pumpState = 0
    /\ m_current_state = InitialState
    /\ m_initialized = FALSE
    /\ m_transitions = <<>>
    /\ m_timed_transitions = <<>>
    /\ elapsed = 0
    /\ fired = <<>>
    /\ beeps = <<>>
    /\ ledPin = LOW /\ pumpPin = LOW
    /\ display = ""
    /\ poolFault = TRUE /\ coilFault = TRUE
    /\ since = NothingYet

readDial ==
    /\ pc = "dial"
    /\ pc' = "dialed"
    /\ poolSet' = ReadSetpoint(potRaw)
    /\ UNCHANGED <<poolTemp, coilTemp, coilSet, statusBuffer, ledState, pumpState,
                   m_current_state, m_initialized, m_transitions,
                   m_timed_transitions, elapsed, fired, beeps, ledPin, pumpPin,
                   display, potRaw, poolFault, coilFault, since>>

DialSpec == DialInit /\ [][readDial]_vars

\* the inputs of the specification with fairness: readings and dial values
\* that take every comparison of the three decision states both ways
LiveSensorF10 == {700, 950}
LiveRawDial == {0, 1023}

LiveNext ==
    \/ setup
    \/ \E poolF10 \in LiveSensorF10, coilF10 \in LiveSensorF10, raw \in LiveRawDial,
          steps \in 1..MaxStep :
          loop(poolF10, coilF10, raw, steps)

\* the runtime calls setup() once and then loop() again and again, for ever.
\* A step of LiveNext that changes the state is possible in every state
\* (setup() before the first cycle, afterwards a cycle with other readings),
\* so that weak fairness of LiveNext is the same as its steps happening again
\* and again, which is how it is stated for the cycles.
LiveSpec ==
    /\ Init
    /\ [][LiveNext]_vars
    /\ WF_vars(setup)
    /\ []<><<LiveNext>>_vars

----------------------------------------------------------------------------
(* Properties *)

Idx == 1..Len(fired)

\* the fired transition r was triggered by event e
ByEvent(r, e) == r.kind = "event" /\ r.trigger = e

\* the machine has been run at least once
Running == pc = "loop" /\ m_initialized

\* C1: at the end of every control cycle pumpState is HIGH iff the current
\* state is Pump; a transition out of Pump leaves pumpState LOW right after
\* the exit action; before the first cycle and after the first cycle from
\* CheckPool pumpState is LOW.
C1_PumpIffPumpState ==
    /\ (pumpState = HIGH) <=> (m_current_state = "Pump")
    /\ pumpState \in {LOW, HIGH}
    /\ \A i \in Idx : fired[i].from = "Pump" => fired[i].pump = LOW
    /\ ~m_initialized => pumpState = LOW
    /\ (fired # <<>> /\ fired[1].from = "CheckPool") => pumpState = LOW

\* a cycle that left Pump for Wait
C1_Witness ==
    /\ fired # <<>>
    /\ fired[1].from = "Pump"
    /\ m_current_state = "Wait"
    /\ pumpState = LOW

\* C2: as long as every reading of the pool sensor, or every reading of the
\* coil sensor, has been the disconnected value, the machine is in Wait,
\* Heat or SmallHeat after each cycle, no transition into Pump has fired and
\* pumpState is not HIGH.
C2_FailsClosed ==
    (Running /\ (poolFault \/ coilFault)) =>
        /\ m_current_state \in {"Wait", "Heat", "SmallHeat"}
        /\ pumpState # HIGH
        /\ \A i \in Idx : fired[i].to # "Pump"

\* C3: every transition into Pump fired in a cycle comes from CheckPrimed on
\* COIL_NOT_PRIMED, and the readings of that cycle satisfy
\* coilTemp > poolTemp + 2.
C3_PumpOnlyOnPositiveDifference ==
    \A i \in Idx : fired[i].to = "Pump" =>
        /\ fired[i].from = "CheckPrimed"
        /\ ByEvent(fired[i], COIL_NOT_PRIMED)
        /\ coilTemp > poolTemp + 2

\* a cycle that entered Pump
C3_Witness ==
    /\ \E i \in Idx : fired[i].to = "Pump"
    /\ m_current_state = "Pump"
    /\ pumpState = HIGH

\* C4: after every control cycle, the first included, the current state is a
\* dwell state; every transition into a decision state is followed in the
\* same cycle by an event transition out of it.
C4_DecisionStatesTransient ==
    /\ Running => m_current_state \in DwellStates
    /\ \A i \in Idx : fired[i].to \in DecisionStates =>
          /\ i < Len(fired)
          /\ fired[i + 1].from = fired[i].to
          /\ fired[i + 1].kind = "event"

\* a cycle that passed through CheckCoil and CheckPrimed
C4_Witness ==
    /\ Running
    /\ \E i \in Idx : fired[i].to = "CheckCoil"
    /\ \E i \in Idx : fired[i].to = "CheckPrimed"
    /\ m_current_state \in DwellStates

\* the ten registered transitions as pairs (from, to)
TenTransitions ==
    { <<"CheckPool", "Wait">>, <<"Wait", "CheckPool">>, <<"CheckPool", "Heat">>,
      <<"Heat", "CheckCoil">>, <<"CheckCoil", "SmallHeat">>,
      <<"SmallHeat", "CheckCoil">>, <<"CheckCoil", "CheckPrimed">>,
      <<"CheckPrimed", "Pump">>, <<"Pump", "CheckPrimed">>,
      <<"CheckPrimed", "Wait">> }

\* C5: in every step the current state changes along a chain of fired
\* transitions, each one of the ten registered pairs, starting at the state
\* before the step and ending at the state after it; without a fired
\* transition the state does not change.
C5_OnlyRegisteredSteps ==
    [][ LET f == fired' IN
        IF pc = "loop"
        THEN /\ \A i \in 1..Len(f) : <<f[i].from, f[i].to>> \in TenTransitions
             /\ f = <<>> => m_current_state' = m_current_state
             /\ f # <<>> =>
                  /\ f[1].from = m_current_state
                  /\ f[Len(f)].to = m_current_state'
                  /\ \A i \in 1..(Len(f) - 1) : f[i + 1].from = f[i].to
        ELSE m_current_state' = m_current_state ]_vars

\* a cycle that went Heat -> CheckCoil -> CheckPrimed -> Pump
C5_Witness ==
    /\ Len(fired) = 3
    /\ fired[1].from = "Heat"
    /\ m_current_state = "Pump"

\* C6: the machine never rests in CheckPool; every transition out of
\* CheckPool in a cycle is, for poolTemp < poolSet, the one to Heat on
\* POOL_NOT_HEATED, leaving the label "HEAT...", and otherwise the one to Wait
\* on POOL_HEATED, leaving the label "WAIT..."; either emits SUCCESS.
C6_CheckPoolDecision ==
    /\ Running => m_current_state # "CheckPool"
    /\ \A i \in Idx : fired[i].to = "CheckPool" =>
          i < Len(fired) /\ fired[i + 1].from = "CheckPool"
    /\ \A i \in Idx : fired[i].from = "CheckPool" =>
          /\ i = Len(fired)
          /\ fired[i].notify = "SUCCESS"
          /\ beeps # <<>> /\ beeps[Len(beeps)] = "SUCCESS"
          /\ IF poolTemp < poolSet
             THEN /\ ByEvent(fired[i], POOL_NOT_HEATED)
                  /\ fired[i].to = "Heat"
                  /\ m_current_state = "Heat"
                  /\ statusBuffer = "HEAT..."
             ELSE /\ ByEvent(fired[i], POOL_HEATED)
                  /\ fired[i].to = "Wait"
                  /\ m_current_state = "Wait"
                  /\ statusBuffer = "WAIT..."

\* the first cycle: CheckPool, the initial state, decided for Heat
C6_Witness ==
    /\ Len(fired) = 1
    /\ fired[1].from = "CheckPool"
    /\ fired[1].to = "Heat"
    /\ poolTemp < poolSet
    /\ statusBuffer = "HEAT..."

\* C7: every transition out of CheckCoil fired with coilTemp >= coilSet is
\* the one to CheckPrimed on COIL_READY with SUCCESS; if also
\* coilTemp > poolTemp + 2, the transition to Pump on COIL_NOT_PRIMED with
\* SUCCESS follows in the same cycle, which ends in Pump with pumpState HIGH.
C7_CoilReadyLeadsToPump ==
    /\ \A i \in Idx : fired[i].to = "CheckCoil" =>
          i < Len(fired) /\ fired[i + 1].from = "CheckCoil"
    /\ \A i \in Idx : (fired[i].from = "CheckCoil" /\ coilTemp >= coilSet) =>
          /\ ByEvent(fired[i], COIL_READY)
          /\ fired[i].to = "CheckPrimed"
          /\ fired[i].notify = "SUCCESS"
          /\ coilTemp > poolTemp + 2 =>
                /\ i + 1 = Len(fired)
                /\ fired[i + 1].from = "CheckPrimed"
                /\ ByEvent(fired[i + 1], COIL_NOT_PRIMED)
                /\ fired[i + 1].to = "Pump"
                /\ fired[i + 1].notify = "SUCCESS"
                /\ beeps[Len(beeps)] = "SUCCESS"
                /\ m_current_state = "Pump"
                /\ pumpState = HIGH

\* a cycle in which CheckCoil found the coil ready and the pump started
C7_Witness ==
    /\ \E i \in Idx : fired[i].from = "CheckCoil" /\ fired[i].to = "CheckPrimed"
    /\ coilTemp >= coilSet
    /\ coilTemp > poolTemp + 2
    /\ m_current_state = "Pump"

\* C8: a cycle that starts in Pump either leaves the machine in Pump, with
\* less than the burst duration spent there, or fires the timed transition
\* to CheckPrimed at an elapsed time of at least the burst duration, with
\* pumpState LOW after the exit action; then, for coilTemp <= poolTemp + 2,
\* the transition to Wait on COIL_PRIMED with SUCCESS follows and the pump
\* stays off, and otherwise the one to Pump on COIL_NOT_PRIMED and the pump
\* is on again.
C8_PumpBurstThenRecheck ==
    [][ (Running /\ m_current_state = "Pump") =>
        LET f == fired' IN
        \/ /\ f = <<>>
           /\ m_current_state' = "Pump"
           /\ elapsed' < PumpMs
           /\ pumpState' = HIGH
        \/ /\ Len(f) = 2
           /\ f[1].from = "Pump"
           /\ f[1].kind = "timed"
           /\ f[1].at >= PumpMs
           /\ f[1].to = "CheckPrimed"
           /\ f[1].pump = LOW
           /\ f[2].from = "CheckPrimed"
           /\ IF coilTemp' <= poolTemp' + 2
              THEN /\ ByEvent(f[2], COIL_PRIMED)
                   /\ f[2].to = "Wait"
                   /\ f[2].notify = "SUCCESS"
                   /\ beeps' = <<"SUCCESS">>
                   /\ m_current_state' = "Wait"
                   /\ pumpState' = LOW
              ELSE /\ ByEvent(f[2], COIL_NOT_PRIMED)
                   /\ f[2].to = "Pump"
                   /\ m_current_state' = "Pump"
                   /\ elapsed' = 0
                   /\ pumpState' = HIGH ]_vars

\* a pump burst that ended with the coil primed
C8_Witness ==
    /\ Len(fired) = 2
    /\ fired[1].from = "Pump"
    /\ ByEvent(fired[2], COIL_PRIMED)
    /\ m_current_state = "Wait"
    /\ pumpState = LOW

\* C9: a cycle that starts in Wait either leaves the machine in Wait, with
\* less than the long-wait duration spent there, or fires as its first
\* transition the timed one to CheckPool at an elapsed time of at least the
\* long-wait duration, without a notification: the only notification of
\* that cycle is the one of the CheckPool decision that follows.
C9_WaitUntilTimeout ==
    [][ (Running /\ m_current_state = "Wait") =>
        LET f == fired' IN
        \/ /\ f = <<>>
           /\ m_current_state' = "Wait"
           /\ elapsed' < WaitMs
           /\ beeps' = <<>>
        \/ /\ Len(f) = 2
           /\ f[1].from = "Wait"
           /\ f[1].to = "CheckPool"
           /\ f[1].kind = "timed"
           /\ f[1].at >= WaitMs
           /\ f[1].notify = "NONE"
           /\ f[2].from = "CheckPool"
           /\ Len(beeps') = 1 ]_vars

\* the long wait ran out and CheckPool sent the machine to Wait again
C9_Witness ==
    /\ Len(fired) = 2
    /\ fired[1].from = "Wait"
    /\ fired[1].kind = "timed"
    /\ fired[2].from = "CheckPool"
    /\ m_current_state = "Wait"

\* the registered duration and timed target of each dwell state
DurationOf(s) ==
    CASE s = "Wait"      -> WaitMs
      [] s = "Heat"      -> HeatMs
      [] s = "SmallHeat" -> SmallHeatMs
      [] s = "Pump"      -> PumpMs

TimedTargetOf(s) ==
    CASE s = "Wait"      -> "CheckPool"
      [] s = "Heat"      -> "CheckCoil"
      [] s = "SmallHeat" -> "CheckCoil"
      [] s = "Pump"      -> "CheckPrimed"

\* C10: a cycle that starts in a dwell state either changes nothing but the
\* time spent there, which stays below the state's duration, or fires as its
\* first transition the state's timed transition at an elapsed time of at
\* least the duration (from Heat with SUCCESS), whatever the readings are.
C10_DwellLeavesOnlyByTimer ==
    [][ (Running /\ m_current_state \in DwellStates) =>
        LET f == fired'
            s == m_current_state IN
        \/ /\ f = <<>>
           /\ m_current_state' = s
           /\ elapsed' > elapsed
           /\ elapsed' < DurationOf(s)
           /\ UNCHANGED <<statusBuffer, pumpState, ledState>>
        \/ /\ f # <<>>
           /\ f[1].from = s
           /\ f[1].kind = "timed"
           /\ f[1].to = TimedTargetOf(s)
           /\ f[1].at >= DurationOf(s)
           /\ elapsed < DurationOf(s)
           /\ s = "Heat" => (f[1].notify = "SUCCESS" /\ beeps'[1] = "SUCCESS") ]_vars

\* the long heat ran out and the timed transition to CheckCoil fired
C10_Witness ==
    /\ fired # <<>>
    /\ fired[1].from = "Heat"
    /\ fired[1].to = "CheckCoil"
    /\ fired[1].at >= HeatMs

\* C11: every cycle that fires a transition ends in a dwell state with its
\* time-in-state at zero; a cycle that fires none adds its own duration to
\* the time-in-state; a timed transition is the first one of its cycle, leaves
\* the state the cycle started in, and fires at a time-in-state that is the
\* time since the entry into that state (the value before the cycle plus the
\* cycle's duration) and at least the state's duration.
C11_EntryRestartsTimer ==
    [][ pc = "loop" =>
        LET f == fired' IN
        /\ f # <<>> => (elapsed' = 0 /\ m_current_state' \in DwellStates)
        /\ (f = <<>> /\ Running) =>
              /\ elapsed' > elapsed
              /\ elapsed' <= elapsed + MaxStep * StepMs
              /\ elapsed' < DurationOf(m_current_state)
        /\ \A i \in 1..Len(f) : f[i].kind = "timed" =>
              /\ i = 1
              /\ f[i].from = m_current_state
              /\ f[i].at >= DurationOf(f[i].from)
              /\ f[i].at > elapsed
              /\ f[i].at <= elapsed + MaxStep * StepMs
              /\ elapsed < DurationOf(f[i].from) ]_vars

\* SmallHeat re-entered through CheckCoil with its time-in-state at zero
C11_Witness ==
    /\ Len(fired) = 2
    /\ fired[1].from = "SmallHeat"
    /\ fired[1].at >= SmallHeatMs
    /\ fired[2].to = "SmallHeat"
    /\ m_current_state = "SmallHeat"
    /\ elapsed = 0

\* C12: the current state is always exactly one of the seven states, and so
\* are the source and the target of every transition fired in a cycle.
C12_ExactlyOneDefinedState ==
    /\ m_current_state \in States
    /\ Cardinality({s \in States : s = m_current_state}) = 1
    /\ \A i \in Idx : fired[i].from \in States /\ fired[i].to \in States

\* a cycle that went from Heat through CheckCoil to SmallHeat
C12_Witness ==
    /\ Running
    /\ Len(fired) = 2
    /\ fired[1].from = "Heat"
    /\ fired[1].to = "CheckCoil"
    /\ m_current_state = "SmallHeat"

\* the fired transitions of the last cycle that carry a notification
Notifying == {i \in Idx : fired[i].notify # "NONE"}

\* C13 as stated: a control cycle emits zero or one notification.
C13_AtMostOneNotification == Len(beeps) <= 1

\* C13 as amended: a control cycle emits one notification for each transition
\* it fires that is registered with a callback, all of them SUCCESS, and so
\* at most one per fired transition and at most three in all.
C13_OneNotificationPerTransition ==
    /\ Len(beeps) = Cardinality(Notifying)
    /\ Len(beeps) <= Len(fired)
    /\ Len(fired) <= 3
    /\ \A j \in 1..Len(beeps) : beeps[j] = "SUCCESS"

\* Heat -> CheckCoil -> CheckPrimed -> Pump in one cycle: three notifications
C13_Witness ==
    /\ Len(fired) = 3
    /\ fired[1].from = "Heat"
    /\ fired[3].to = "Pump"
    /\ beeps = <<"SUCCESS", "SUCCESS", "SUCCESS">>

\* the registered event transitions and timed transitions that leave state s
EventTransitionsFrom(s) ==
    {i \in 1..Len(m_transitions) : m_transitions[i].state_from = s}

TimedTransitionsFrom(s) ==
    {i \in 1..Len(m_timed_transitions) : m_timed_transitions[i].state_from = s}

\* C14 as stated: every source state has at most one event transition and
\* at most one timed transition registered.
C14_AtMostOneOfEachKind ==
    \A s \in States :
        /\ Cardinality(EventTransitionsFrom(s)) <= 1
        /\ Cardinality(TimedTransitionsFrom(s)) <= 1

\* C14 as amended: every source state has at most one transition registered
\* for each event and at most one timed transition; a decision state has two
\* event transitions (one for each outcome) and no timed one, a dwell state
\* has one timed transition and no event transition.
C14_AtMostOnePerEvent ==
    /\ \A i, j \in 1..Len(m_transitions) :
          (/\ m_transitions[i].state_from = m_transitions[j].state_from
           /\ m_transitions[i].event = m_transitions[j].event) => i = j
    /\ \A s \in States : Cardinality(TimedTransitionsFrom(s)) <= 1
    /\ pc = "loop" =>
          /\ \A s \in DecisionStates :
                /\ Cardinality(EventTransitionsFrom(s)) = 2
                /\ TimedTransitionsFrom(s) = {}
          /\ \A s \in DwellStates :
                /\ EventTransitionsFrom(s) = {}
                /\ Cardinality(TimedTransitionsFrom(s)) = 1

\* setup() has registered the six event and four timed transitions
C14_Witness ==
    /\ pc = "loop"
    /\ Len(m_transitions) = 6
    /\ Len(m_timed_transitions) = 4

\* the timed transition of dwell state s fires as the first transition of a cycle
TimedExit(s) ==
    /\ m_current_state = s
    /\ fired' # <<>>
    /\ fired'[1].from = s
    /\ fired'[1].kind = "timed"
    /\ fired'[1].to = TimedTargetOf(s)

\* the last cycle fired the timed transition of dwell state s first
ExitedByTimer(s) ==
    /\ fired # <<>>
    /\ fired[1].from = s
    /\ fired[1].kind = "timed"
    /\ fired[1].to = TimedTargetOf(s)

\* C15: with loop() called for ever, the machine does not stay in a dwell
\* state for ever, whatever the readings are: a cycle that leaves it in a
\* dwell state without firing is followed by a cycle that fires that state's
\* timed transition, and a dwell state the machine is in again and again has
\* its timed transition fire again and again.
C15_TimedFallback ==
    \A s \in DwellStates :
        /\ (Running /\ m_current_state = s /\ fired = <<>>) ~> ExitedByTimer(s)
        /\ (<>[](m_current_state # s) \/ []<><<TimedExit(s)>>_vars)

\* a cycle that found the machine in Heat and left it there
C15_Witness ==
    /\ Running
    /\ m_current_state = "Heat"
    /\ fired = <<>>
    /\ elapsed > 0

\* the readings of the last cycle ask for heat and show a hot, unprimed coil
Hot ==
    /\ poolTemp < poolSet
    /\ coilTemp >= coilSet
    /\ coilTemp > poolTemp + 2

\* the last cycle fired the transition into Pump and switched the pump on
EnteredPump ==
    /\ \E i \in Idx : fired[i].to = "Pump"
    /\ m_current_state = "Pump"
    /\ pumpState = HIGH

\* C16: with loop() called for ever and the readings of every cycle asking
\* for heat with a hot, unprimed coil, the machine enters Pump with the pump
\* on again and again, and every cycle that ends a pump burst enters Pump
\* again.
C16_HeatingReachesPump ==
    [](Running => Hot) =>
        /\ []<>EnteredPump
        /\ []((fired # <<>> /\ fired[1].from = "Pump") => EnteredPump)

\* a pump burst ended with hot readings and the pump started again
C16_Witness ==
    /\ Hot
    /\ Len(fired) = 2
    /\ fired[1].from = "Pump"
    /\ EnteredPump

\* C17 as stated: the pins and the label written in a cycle are the values
\* that cycle's tick produced.
C17_OutputsOfSameCycle ==
    Running =>
        /\ pumpPin = pumpState
        /\ ledPin = ledState
        /\ display = statusBuffer

\* C17 as amended: the pins and the label written in a cycle are the values
\* the globals had when the cycle began, that is, those the tick of the
\* previous cycle left; a cycle that enters Pump from another state leaves
\* the pump pin LOW, and a cycle that leaves Pump for Wait leaves it HIGH.
C17_OutputsLagOneCycle ==
    [][ pc = "loop" =>
        /\ pumpPin' = pumpState
        /\ ledPin' = ledState
        /\ display' = statusBuffer
        /\ (m_current_state # "Pump" /\ m_current_state' = "Pump") =>
              (pumpState' = HIGH /\ pumpPin' = LOW)
        /\ (m_current_state = "Pump" /\ m_current_state' # "Pump") =>
              (pumpState' = LOW /\ pumpPin' = HIGH) ]_vars

\* the cycle that entered Pump: pumpState is HIGH, the pin is still LOW
C17_Witness ==
    /\ m_current_state = "Pump"
    /\ \E i \in Idx : fired[i].to = "Pump"
    /\ pumpState = HIGH
    /\ pumpPin = LOW
    /\ display = "HEAT..."

\* the label the entry action of dwell state s writes, according to C18
LabelOf(s) ==
    CASE s = "Wait"      -> "WAIT..."
      [] s = "Heat"      -> "HEAT..."
      [] s = "SmallHeat" -> "HEAT..."
      [] s = "Pump"      -> "PUMP..."

\* C18: after every cycle the label is the one of the dwell state the
\* machine is in, and a step that fires no transition leaves the label as
\* it is.
C18_LabelMatchesState ==
    [][ /\ (pc' = "loop" /\ m_initialized') =>
              /\ m_current_state' \in DwellStates
              /\ statusBuffer' = LabelOf(m_current_state')
        /\ fired' = <<>> => statusBuffer' = statusBuffer ]_vars

\* a cycle spent in SmallHeat under the label "HEAT..."
C18_Witness ==
    /\ Running
    /\ m_current_state = "SmallHeat"
    /\ fired = <<>>
    /\ elapsed > 0
    /\ statusBuffer = "HEAT..."

\* C19: for every raw dial value the setpoint lies in 50..90, is not above
\* the setpoint of the next lower raw value, and is 50 for raw 1023 and 90
\* for raw 0.
C19_SetpointRange ==
    pc = "dialed" =>
        /\ poolSet >= 50
        /\ poolSet <= 90
        /\ potRaw > 0 => ReadSetpoint(potRaw - 1) >= poolSet
        /\ potRaw = 1023 => poolSet = 50
        /\ potRaw = 0 => poolSet = 90

\* the dial at mid-scale
C19_Witness ==
    /\ pc = "dialed"
    /\ potRaw = 512
    /\ poolSet = 69

\* the setpoints the dial values of the model give
Setpoints == {ReadSetpoint(raw) : raw \in RawDial}

\* the outcome of a cycle that starts in the present state with readings pt
\* and ct, setpoint ps, steps time steps later
Outcome(pt, ct, ps, steps) ==
    LET m1 == run_machine(Context(pt, ct, ps, steps), FALSE)
    IN  <<m1.cur, m1.fired, m1.beeps, m1.pumpState, m1.statusBuffer>>

\* C20: a cycle that fires the transition into Pump finds that the last
\* CheckPool decision saw poolTemp < poolSet and did not go to Wait, that a
\* full Heat dwell followed it, and that the last CheckCoil decision after
\* that saw coilTemp >= coilSet; and a cycle that starts in Heat, SmallHeat or
\* Pump has the same outcome for every setpoint.
C20_PumpAfterHeatAndReadyCoil ==
    /\ (\E i \in Idx : fired[i].to = "Pump") =>
          /\ since.poolCold
          /\ ~since.viaWait
          /\ since.heatDone
          /\ since.coilReady
    /\ m_current_state = "Pump" => (since.poolCold /\ since.heatDone /\ since.coilReady)
    /\ (Running /\ m_current_state \in {"Heat", "SmallHeat", "Pump"}) =>
          \A poolF10 \in SensorF10, coilF10 \in SensorF10, steps \in 1..MaxStep :
             \A ps \in Setpoints :
                Outcome(RoundTemp(poolF10), RoundTemp(coilF10), ps, steps)
                  = Outcome(RoundTemp(poolF10), RoundTemp(coilF10), 50, steps)

\* Pump entered after Heat, a CheckCoil that sent the machine to SmallHeat
\* and a later CheckCoil that found the coil ready
C20_Witness ==
    /\ Len(fired) = 3
    /\ fired[1].from = "SmallHeat"
    /\ fired[3].to = "Pump"
    /\ since.poolCold /\ since.heatDone /\ since.coilReady

====
